---- MODULE Spec2Model ----
(***************************************************************************)
(* Forecasting core of Insight-Hub: polynomialRegression,                  *)
(* solveNormalEquations, gaussianElimination, movingAverage,               *)
(* detectSeasonality, generateEnhancedPredictions (mlAlgorithms) and       *)
(* linearRegression (mockData).                                            *)
(*                                                                         *)
(* Numbers are modelled as exact rationals <<num, den>> in lowest terms    *)
(* with den > 0; <<0, 0>> stands for NaN (the result of 0/0).  Rounding of *)
(* IEEE doubles is not modelled.  JavaScript arrays are sequences: the     *)
(* code's index k is position k + 1.                                       *)
(***************************************************************************)
EXTENDS Integers, Sequences, FiniteSets, TLC

VARIABLES data, op, arg, env, result

vars == <<data, op, arg, env, result>>

---------------------------------------------------------------------------
(* Bounds of the explored inputs *)

MaxLen == 4
MaxVal == 1
MaxDegree == 3
MaxWindow == 4
MaxHorizon == 2

---------------------------------------------------------------------------
(* Exact rational arithmetic standing in for JavaScript numbers *)

Abs(x) == IF x < 0 THEN 0 - x ELSE x

RECURSIVE Gcd(_, _)
Gcd(a, b) == IF b = 0 THEN a ELSE Gcd(b, a % b)

NaN == <<0, 0>>

IsNaN(r) == r[2] = 0

Norm(n, d) ==
  IF d = 0 THEN NaN
  ELSE LET g == Gcd(Abs(n), Abs(d))
           s == IF d < 0 THEN 0 - 1 ELSE 1
       IN  <<s * (n \div g), s * (d \div g)>>

R(n) == <<n, 1>>

Zero == R(0)

One == R(1)

RAdd(a, b) ==
  IF IsNaN(a) \/ IsNaN(b) THEN NaN
  ELSE LET g == Gcd(a[2], b[2])
       IN  Norm(a[1] * (b[2] \div g) + b[1] * (a[2] \div g), (a[2] \div g) * b[2])

RNeg(a) == IF IsNaN(a) THEN NaN ELSE <<0 - a[1], a[2]>>

RSub(a, b) == RAdd(a, RNeg(b))

RMul(a, b) ==
  IF IsNaN(a) \/ IsNaN(b) THEN NaN
  ELSE LET g1 == Gcd(Abs(a[1]), b[2])
           g2 == Gcd(Abs(b[1]), a[2])
       IN  Norm((a[1] \div g1) * (b[1] \div g2), (a[2] \div g2) * (b[2] \div g1))

\* a / b; a zero divisor gives NaN (only 0/0 can arise in the modelled code)
RDiv(a, b) ==
  IF IsNaN(a) \/ IsNaN(b) \/ b[1] = 0 THEN NaN
  ELSE RMul(a, IF b[1] < 0 THEN <<0 - b[2], 0 - b[1]>> ELSE <<b[2], b[1]>>)

\* comparisons with NaN are false, as in JavaScript
RLt(a, b) == ~IsNaN(a) /\ ~IsNaN(b) /\ a[1] * b[2] < b[1] * a[2]

RLe(a, b) == ~IsNaN(a) /\ ~IsNaN(b) /\ a[1] * b[2] <= b[1] * a[2]

RAbs(a) == <<Abs(a[1]), a[2]>>

\* Math.max / Math.min of two numbers (NaN if either is NaN)
MathMax(a, b) == IF IsNaN(a) \/ IsNaN(b) THEN NaN ELSE IF RLt(a, b) THEN b ELSE a

MathMin(a, b) == IF IsNaN(a) \/ IsNaN(b) THEN NaN ELSE IF RLt(b, a) THEN b ELSE a

\* x || 1 and x || 0: 0 and NaN are falsy
OrElse(x, dflt) == IF IsNaN(x) \/ x[1] = 0 THEN dflt ELSE x

\* Math.pow(i, j) on non-negative integers; Math.pow(0, 0) = 1
RECURSIVE Pow(_, _)
Pow(b, e) == IF e = 0 THEN 1 ELSE b * Pow(b, e - 1)

RSquare(a) == RMul(a, a)

\* array.reduce((sum, v) => sum + v, 0)
RECURSIVE SumSeq(_)
SumSeq(s) == IF s = <<>> THEN Zero ELSE RAdd(SumSeq(SubSeq(s, 1, Len(s) - 1)), s[Len(s)])

CeilDiv(a, b) == (a + b - 1) \div b

\* Math.abs(x) < 1e-10
BelowEpsilon(x) == ~IsNaN(x) /\ Abs(x[1]) < CeilDiv(CeilDiv(x[2], 100000), 100000)

\* arr[i] = v on a JavaScript array: writing at index arr.length appends
ArraySet(arr, i, v) == IF i < Len(arr) THEN [arr EXCEPT ![i + 1] = v] ELSE Append(arr, v)

\* the number array as rationals
Nums(s) == [i \in 1..Len(s) |-> R(s[i])]

---------------------------------------------------------------------------
(* mlAlgorithms: polynomial regression *)

\* variant: the determinant with the wrong sign between its two products
det2x2WrongSign(A) == RAdd(RMul(A[1][1], A[2][2]), RMul(A[1][2], A[2][1]))

det2x2(A) == RSub(RMul(A[1][1], A[2][2]), RMul(A[1][2], A[2][1]))

\* variant: a diagonal division for every coefficient, not only the first two
fallbackSolutionAllDiagonal(A, b) == [k \in 1..Len(A) |-> RDiv(b[k], OrElse(A[k][k], One))]

\* the branch for systems that are not 2x2: only solution[0] and solution[1] are written
fallbackSolution(A, b) ==
  LET n == Len(A)
      solution == [k \in 1..n |-> Zero]
      s0 == RDiv(b[1], OrElse(A[1][1], One))
      s1 == IF n > 1 THEN RDiv(b[2], OrElse(A[2][2], One)) ELSE Zero
  IN  ArraySet(ArraySet(solution, 0, s0), 1, s1)

gaussianElimination(A, b) ==
  LET n == Len(A)
      solution == [k \in 1..n |-> Zero]
  IN  IF n = 2
      THEN LET det == det2x2(A)
           IN  IF BelowEpsilon(det) THEN <<Zero, Zero>>
               ELSE LET s0 == RDiv(RSub(RMul(b[1], A[2][2]), RMul(b[2], A[1][2])), det)
                        s1 == RDiv(RSub(RMul(A[1][1], b[2]), RMul(A[2][1], b[1])), det)
                    IN  ArraySet(ArraySet(solution, 0, s0), 1, s1)
      ELSE fallbackSolution(A, b)

XTXof(X) ==
  LET n == Len(X)
      p == Len(X[1])
  IN  [i \in 1..p |-> [j \in 1..p |-> SumSeq([k \in 1..n |-> RMul(X[k][i], X[k][j])])]]

XTyof(X, y) ==
  LET n == Len(X)
      p == Len(X[1])
  IN  [i \in 1..p |-> SumSeq([k \in 1..n |-> RMul(X[k][i], y[k])])]

solveNormalEquations(X, y) == gaussianElimination(XTXof(X), XTyof(X, y))

designMatrix(n, degree) == [i \in 1..n |-> [j \in 1..(degree + 1) |-> R(Pow(i - 1, j - 1))]]

\* coefficients.reduce((sum, coef, pow) => sum + coef * Math.pow(t, pow), 0)
evalPoly(coefficients, t) ==
  SumSeq([k \in 1..Len(coefficients) |-> RMul(coefficients[k], R(Pow(t, k - 1)))])

rSquared(ssRes, ssTot) == IF ssTot = Zero THEN One ELSE RSub(One, RDiv(ssRes, ssTot))

\* variant: the length guard off by one
tooShortForFitOffByOne(n, degree) == n < degree

tooShortForFit(n, degree) == n < degree + 1

\* raised: X[0].length throws when the design matrix has no rows
polynomialRegression(y, degree) ==
  LET n == Len(y)
  IN  IF tooShortForFit(n, degree)
      THEN [coefficients |-> <<Zero>>, r2 |-> Zero, raised |-> FALSE, calls |-> {}]
      ELSE IF n = 0
      THEN [coefficients |-> <<>>, r2 |-> NaN, raised |-> TRUE, calls |-> {"solveNormalEquations"}]
      ELSE LET X == designMatrix(n, degree)
               coefficients == solveNormalEquations(X, y)
               meanY == RDiv(SumSeq(y), R(n))
               ssRes == SumSeq([i \in 1..n |-> RSquare(RSub(y[i], evalPoly(coefficients, i - 1)))])
               ssTot == SumSeq([i \in 1..n |-> RSquare(RSub(y[i], meanY))])
           IN  [coefficients |-> coefficients, r2 |-> rSquared(ssRes, ssTot), raised |-> FALSE,
                calls |-> {"solveNormalEquations", "gaussianElimination"}]

---------------------------------------------------------------------------
(* mockData: the closed-form linear fit *)

\* variant: the intercept divided by n - 1
linearInterceptOffByOne(sumY, slope, sumX, n) == RDiv(RSub(sumY, RMul(slope, sumX)), R(n - 1))

linearIntercept(sumY, slope, sumX, n) == RDiv(RSub(sumY, RMul(slope, sumX)), R(n))

linearRegression(y) ==
  LET n == Len(y)
  IN  IF n < 2
      THEN [slope |-> Zero, intercept |-> IF n = 0 THEN Zero ELSE OrElse(y[1], Zero), r2 |-> Zero]
      ELSE LET sumX == SumSeq([i \in 1..n |-> R(i - 1)])
               sumY == SumSeq(y)
               sumXY == SumSeq([i \in 1..n |-> RMul(R(i - 1), y[i])])
               sumXX == SumSeq([i \in 1..n |-> R((i - 1) * (i - 1))])
               slope == RDiv(RSub(RMul(R(n), sumXY), RMul(sumX, sumY)),
                             RSub(RMul(R(n), sumXX), RMul(sumX, sumX)))
               intercept == linearIntercept(sumY, slope, sumX, n)
               meanY == RDiv(sumY, R(n))
               ssRes == SumSeq([i \in 1..n |->
                           RSquare(RSub(y[i], RAdd(RMul(slope, R(i - 1)), intercept)))])
               ssTot == SumSeq([i \in 1..n |-> RSquare(RSub(y[i], meanY))])
           IN  [slope |-> slope, intercept |-> intercept, r2 |-> rSquared(ssRes, ssTot)]

---------------------------------------------------------------------------
(* mlAlgorithms: smoothing *)

Max2(a, b) == IF a > b THEN a ELSE b

Min2(a, b) == IF a < b THEN a ELSE b

\* data.slice(start, end) for 0 <= start, end <= data.length
Slice(s, start, end) == IF end <= start THEN <<>> ELSE SubSeq(s, start + 1, end)

windowStart(i, window) == Max2(0, i - (window \div 2))

\* variant: the window's upper half rounded down
windowEndFloor(n, i, window) == Min2(n, i + (window \div 2))

windowEnd(n, i, window) == Min2(n, i + CeilDiv(window, 2))

movingAverage(y, window) ==
  [k \in 1..Len(y) |->
     LET i == k - 1
         slice == Slice(y, windowStart(i, window), windowEnd(Len(y), i, window))
     IN  RDiv(SumSeq(slice), R(Len(slice)))]

---------------------------------------------------------------------------
(* mlAlgorithms: seasonal decomposition *)

SeasonPeriod == 12

\* indices i in 0..n-1 with i % 12 = m, in increasing order
RECURSIVE monthTotal(_, _, _)
monthTotal(detrended, m, i) ==
  IF i > Len(detrended) THEN Zero
  ELSE RAdd(IF (i - 1) % SeasonPeriod = m THEN detrended[i] ELSE Zero,
            monthTotal(detrended, m, i + 1))

monthCount(n, m) == Cardinality({i \in 0..(n - 1) : i % SeasonPeriod = m})

seasonalIndex(y) ==
  LET n == Len(y)
      trend == movingAverage(y, 4)
      detrended == [i \in 1..n |-> RSub(y[i], trend[i])]
  IN  [m \in 1..SeasonPeriod |->
         IF monthCount(n, m - 1) > 0
         THEN RDiv(monthTotal(detrended, m - 1, 1), R(monthCount(n, m - 1)))
         ELSE monthTotal(detrended, m - 1, 1)]

isSignificant(seasonalPattern) ==
  LET seasonalVariance ==
        RDiv(SumSeq([m \in 1..SeasonPeriod |-> RSquare(seasonalPattern[m])]), R(SeasonPeriod))
  IN  RLt(<<1, 10>>, seasonalVariance)

detectSeasonality(y) ==
  LET n == Len(y)
  IN  IF n < SeasonPeriod
      THEN [seasonal |-> <<>>, trend |-> <<>>, hasSeasonality |-> FALSE, calls |-> {}]
      ELSE LET seasonalPattern == seasonalIndex(y)
           IN  [seasonal |-> [i \in 1..n |-> seasonalPattern[((i - 1) % SeasonPeriod) + 1]],
                trend |-> movingAverage(y, 4),
                hasSeasonality |-> isSignificant(seasonalPattern),
                calls |-> {"movingAverage"}]

---------------------------------------------------------------------------
(* mlAlgorithms: the forecast *)

MinPoints == 3

MaxPolyDegree == 3

monthNames == <<"Jan", "Feb", "Mar", "Apr", "May", "Jun",
                "Jul", "Aug", "Sep", "Oct", "Nov", "Dec">>

\* Math.sin(t) for t = 0..20, rounded to hundredths
sinTable == <<0, 84, 91, 14, 0 - 76, 0 - 96, 0 - 28, 66, 99, 41, 0 - 54,
              0 - 100, 0 - 54, 42, 99, 65, 0 - 29, 0 - 96, 0 - 75, 15, 91>>

MathSin(t) == Norm(sinTable[t + 1], 100)

\* values.slice(-3)
recentValues(y) == SubSeq(y, Max2(1, Len(y) - 2), Len(y))

\* variant: the label compares the first value of the whole series with the last
trendLabelFromStart(y) ==
  IF Len(y) < 3 THEN "stable"
  ELSE IF RLt(RMul(y[1], <<21, 20>>), y[Len(y)]) THEN "up"
  ELSE IF RLt(y[Len(y)], RMul(y[1], <<19, 20>>)) THEN "down"
  ELSE "stable"

\* recentTrend[2] is undefined on fewer than three values: both comparisons are false
trendLabel(y) ==
  LET recentTrend == recentValues(y)
  IN  IF Len(recentTrend) < 3 THEN "stable"
      ELSE IF RLt(RMul(recentTrend[1], <<21, 20>>), recentTrend[3]) THEN "up"
      ELSE IF RLt(recentTrend[3], RMul(recentTrend[1], <<19, 20>>)) THEN "down"
      ELSE "stable"

\* variant: no floor
flooredValueUnfloored(predictedValue, last) == predictedValue

flooredValue(predictedValue, last) == MathMax(predictedValue, RMul(last, <<1, 5>>))

\* one pass of the prediction loop: step i in 1..months, random draw rnd
predictedPoint(y, polyResult, season, i, rnd, currentMonth) ==
  LET n == Len(y)
      futureIndex == n + i - 1
      trendValue == evalPoly(polyResult.coefficients, futureIndex)
      seasonalValue ==
        IF season.hasSeasonality /\ Len(season.seasonal) > 0
        THEN IF (futureIndex % SeasonPeriod) + 1 <= Len(season.seasonal)
             THEN OrElse(season.seasonal[(futureIndex % SeasonPeriod) + 1], Zero)
             ELSE Zero
        ELSE Zero
      withSeason == RAdd(trendValue, seasonalValue)
      confidence == MathMin(polyResult.r2, <<19, 20>>)
      uncertainty == RMul(RMul(RSub(One, confidence), withSeason), <<3, 20>>)
      realDataMultiplier == RAdd(<<6, 5>>, RMul(MathSin(futureIndex), <<1, 10>>))
      scaled == RMul(withSeason, realDataMultiplier)
      noisy == RAdd(scaled, RMul(RSub(rnd, <<1, 2>>), uncertainty))
  IN  [month |-> monthNames[((currentMonth + i) % 12) + 1],
       value |-> flooredValue(noisy, y[n]),
       predicted |-> TRUE]

\* variant: the minimum length off by one
tooFewPointsOffByOne(n) == n < MinPoints - 1

tooFewPoints(n) == n < MinPoints

\* the fit, the decomposition and the label: what the forecast computes once,
\* before the prediction loop
forecastHead(y) ==
  LET n == Len(y)
  IN  IF tooFewPoints(n)
      THEN [polyResult |-> [coefficients |-> <<>>, r2 |-> Zero, raised |-> FALSE, calls |-> {}],
            season |-> [seasonal |-> <<>>, trend |-> <<>>, hasSeasonality |-> FALSE, calls |-> {}],
            trendDirection |-> "stable"]
      ELSE [polyResult |-> polynomialRegression(y, Min2(MaxPolyDegree, n - 1)),
            season |-> detectSeasonality(y),
            trendDirection |-> trendLabel(y)]

resultConfidence(r2) == r2

\* variant: the accuracy without its cap
resultAccuracyUncapped(r2) == RMul(r2, R(100))

resultAccuracy(r2) == MathMin(RMul(r2, R(100)), R(95))

generateEnhancedPredictions(y, head, months, draws, currentMonth) ==
  LET n == Len(y)
  IN  IF tooFewPoints(n)
      THEN [predictions |-> <<>>, confidence |-> Zero, trendDirection |-> "stable",
            seasonalPattern |-> FALSE, accuracy |-> Zero, calls |-> {}]
      ELSE [predictions |->
              [i \in 1..months |->
                 predictedPoint(y, head.polyResult, head.season, i, draws[i], currentMonth)],
            confidence |-> resultConfidence(head.polyResult.r2),
            trendDirection |-> head.trendDirection,
            seasonalPattern |-> head.season.hasSeasonality,
            accuracy |-> resultAccuracy(head.polyResult.r2),
            calls |-> {"polynomialRegression", "detectSeasonality"}]

---------------------------------------------------------------------------
(* The explored inputs *)

Values == (0 - 1)..MaxVal

EnumSeries == UNION {[1..k -> Values] : k \in 0..MaxLen}

Const12(v) == [i \in 1..12 |-> v]

Spike12(v) == [i \in 1..12 |-> IF i = 1 THEN v ELSE 0]

\* series whose recent three values are the trend-label scenarios
LabelScenarios ==
  {<<100, 100, 106>>, <<100, 100, 94>>, <<100, 100, 101>>, <<100, 100, 105>>,
   <<100, 100, 95>>, <<5, 100, 100, 106>>}

Scenarios ==
  LabelScenarios \cup {<<1, 3, 5, 7, 9>>, Const12(2), Spike12(1), Spike12(12)}

Series == EnumSeries \cup Scenarios

\* Math.random() lies in [0, 1).  For the label scenarios only the zero-noise
\* draw 1/2 is explored: any other draw makes the numerator of the noise term
\* exceed the 32-bit integer range.
Draws == {Zero, <<3, 4>>}

DrawsFor(y) == IF y \in LabelScenarios THEN {<<1, 2>>} ELSE Draws

\* new Date().getMonth()
Months == {0, 11}

NoEnv == [month |-> 0, draws |-> <<>>]

NoResult == [calls |-> {}]

---------------------------------------------------------------------------
(* The state machine: one call at a time on the series under test *)

Init ==
  /\ data \in Series
  /\ op = "idle"
  /\ arg = 0
  /\ env = NoEnv
  /\ result = NoResult

CallPolynomialRegression ==
  /\ op = "idle"
  /\ \E degree \in 0..MaxDegree :
       /\ arg' = degree
       /\ result' = polynomialRegression(Nums(data), degree)
  /\ op' = "polynomialRegression"
  /\ UNCHANGED <<data, env>>

CallLinearRegression ==
  /\ op = "idle"
  /\ op' = "linearRegression"
  /\ result' = linearRegression(Nums(data))
  /\ UNCHANGED <<data, arg, env>>

CallMovingAverage ==
  /\ op = "idle"
  /\ \E window \in 1..MaxWindow :
       /\ arg' = window
       /\ result' = [series |-> movingAverage(Nums(data), window)]
  /\ op' = "movingAverage"
  /\ UNCHANGED <<data, env>>

CallDetectSeasonality ==
  /\ op = "idle"
  /\ op' = "detectSeasonality"
  /\ result' = detectSeasonality(Nums(data))
  /\ UNCHANGED <<data, arg, env>>

CallGenerateEnhancedPredictions ==
  /\ op = "idle"
  /\ \E head \in {forecastHead(Nums(data))} :
       \E months \in 0..MaxHorizon :
         \E draws \in [1..months -> DrawsFor(data)] :
           \E currentMonth \in Months :
             /\ arg' = months
             /\ env' = [month |-> currentMonth, draws |-> draws]
             /\ result' = generateEnhancedPredictions(Nums(data), head, months, draws, currentMonth)
  /\ op' = "generateEnhancedPredictions"
  /\ UNCHANGED data

Return ==
  /\ op # "idle"
  /\ op' = "idle"
  /\ arg' = 0
  /\ env' = NoEnv
  /\ result' = NoResult
  /\ UNCHANGED data

Next ==
  \/ CallPolynomialRegression
  \/ CallLinearRegression
  \/ CallMovingAverage
  \/ CallDetectSeasonality
  \/ CallGenerateEnhancedPredictions
  \/ Return

Spec == Init /\ [][Next]_vars

---------------------------------------------------------------------------
(* Helpers of the properties, computed on the integer series itself *)

\* data[lo] + ... + data[hi - 1], indices as in the code (0-based, half-open)
RECURSIVE RangeSum(_, _, _)
RangeSum(s, lo, hi) == IF hi <= lo THEN 0 ELSE s[hi] + RangeSum(s, lo, hi - 1)

\* sum over the time steps i = 0..n-1 of i^k * s[i]
RECURSIVE MomentSum(_, _, _)
MomentSum(s, k, n) == IF n = 0 THEN 0 ELSE Pow(n - 1, k) * s[n] + MomentSum(s, k, n - 1)

\* sum over the time steps i = 0..n-1 of i^k
RECURSIVE PowerSum(_, _)
PowerSum(k, n) == IF n = 0 THEN 0 ELSE Pow(n - 1, k) + PowerSum(k, n - 1)

DiagonalQuotient(s, k) ==
  LET d == PowerSum(2 * k, Len(s))
  IN  Norm(MomentSum(s, k, Len(s)), IF d = 0 THEN 1 ELSE d)

IsLinear(s) == \A i \in 1..Len(s) : s[i] = s[1] + (i - 1) * (s[2] - s[1])

ExpectedLabel(first, last) ==
  IF 100 * last > 105 * first THEN "up"
  ELSE IF 100 * last < 95 * first THEN "down"
  ELSE "stable"

Forecasting == op = "generateEnhancedPredictions"

Fitting == op = "polynomialRegression"

---------------------------------------------------------------------------
(* The properties *)

\* C1: on at least 3 observed points and a positive horizon the forecast holds
\* exactly `horizon` points, each marked predicted and each with a value of at
\* least 0.2 times the last observed value.
ForecastPointsFloored ==
  (Forecasting /\ Len(data) >= 3 /\ arg >= 1) =>
    /\ Len(result.predictions) = arg
    /\ \A i \in 1..Len(result.predictions) :
         /\ result.predictions[i].predicted = TRUE
         /\ RLe(Norm(data[Len(data)], 5), result.predictions[i].value)

\* C1 witness: a forecast of two points on a series with a positive last value,
\* the first point held up by the floor
ForecastFloorBinds ==
  /\ Forecasting /\ Len(data) >= 3 /\ arg = 2
  /\ data[Len(data)] > 0
  /\ Len(result.predictions) = 2
  /\ result.predictions[1].value = Norm(data[Len(data)], 5)

\* C2: on fewer than 3 observed points the forecast is the zero result, whatever
\* the horizon, and neither the fit nor the decomposition runs.
ForecastTooFewPoints ==
  (Forecasting /\ Len(data) < 3) =>
    result = [predictions |-> <<>>, confidence |-> Zero, trendDirection |-> "stable",
              seasonalPattern |-> FALSE, accuracy |-> Zero, calls |-> {}]

\* C2 witness: a forecast asked of two points with the largest horizon
ForecastOfTwoPoints == Forecasting /\ Len(data) = 2 /\ arg = MaxHorizon /\ result.predictions = <<>>

\* C3: a series shorter than degree + 1 gets the coefficients [0] (or [0, 0])
\* and r2 = 0, without raising and without the normal equations being solved.
FitFallback ==
  (Fitting /\ Len(data) < arg + 1) =>
    /\ result.coefficients \in {<<Zero>>, <<Zero, Zero>>}
    /\ result.r2 = Zero
    /\ result.raised = FALSE
    /\ result.calls = {}

\* C3 witness: the empty series fitted with degree 0
FitOfEmptySeries == Fitting /\ data = <<>> /\ arg = 0 /\ result.coefficients = <<Zero>>

\* C4 (as claimed): a series of length >= degree + 1 gets exactly degree + 1
\* coefficients.
CoefficientCountIsDegreePlusOne ==
  (Fitting /\ Len(data) >= arg + 1) => Len(result.coefficients) = arg + 1

\* C5: a perfectly linear series y[i] = a + b*i of length >= 2, fitted with
\* degree 1, gets the coefficients [a, b] and r2 = 1.
LinearSeriesRecovered ==
  (Fitting /\ arg = 1 /\ Len(data) >= 2 /\ IsLinear(data)) =>
    /\ result.coefficients = <<R(data[1]), R(data[2] - data[1])>>
    /\ result.r2 = One

\* C5 witness: [1,3,5,7,9] gives intercept 1 and slope 2
LinearScenarioFitted ==
  /\ Fitting /\ arg = 1 /\ data = <<1, 3, 5, 7, 9>>
  /\ result.coefficients = <<R(1), R(2)>>
  /\ result.r2 = One

\* C6 (as claimed): every forecast has its confidence in [0, 1] and its
\* accuracy in [0, 100].
ConfidenceAccuracyInRange ==
  Forecasting =>
    /\ RLe(Zero, result.confidence) /\ RLe(result.confidence, One)
    /\ RLe(Zero, result.accuracy) /\ RLe(result.accuracy, R(100))

\* C6 (amended): every forecast has confidence <= 1 and accuracy <= 95, the
\* accuracy being 100 * confidence capped at 95; neither is bounded below by 0.
ConfidenceAccuracyBoundedAbove ==
  Forecasting =>
    /\ RLe(result.confidence, One)
    /\ RLe(result.accuracy, R(95))
    /\ result.accuracy = (IF RLt(R(95), RMul(result.confidence, R(100)))
                          THEN R(95) ELSE RMul(result.confidence, R(100)))

\* C6 witness: a forecast whose confidence and accuracy are negative
NegativeConfidence ==
  /\ Forecasting /\ Len(data) >= 3
  /\ RLt(result.confidence, Zero)
  /\ RLt(result.accuracy, Zero)

\* C7: on at least 3 observed points the label is decided by the third-from-last
\* and the last value alone: up iff last > 1.05 * first, down iff not up and
\* last < 0.95 * first, stable otherwise; whatever the horizon.
TrendLabelRule ==
  (Forecasting /\ Len(data) >= 3) =>
    /\ result.trendDirection = ExpectedLabel(data[Len(data) - 2], data[Len(data)])
    /\ SubSeq(data, Len(data) - 2, Len(data)) = <<100, 100, 106>> => result.trendDirection = "up"
    /\ SubSeq(data, Len(data) - 2, Len(data)) = <<100, 100, 94>> => result.trendDirection = "down"
    /\ SubSeq(data, Len(data) - 2, Len(data)) = <<100, 100, 101>> => result.trendDirection = "stable"

\* C7 witness: recent values [100,100,106] after an older, much lower value
TrendScenarioUp ==
  /\ Forecasting /\ data = <<5, 100, 100, 106>> /\ arg = MaxHorizon
  /\ result.trendDirection = "up"

\* C8: the moving average of a non-empty series has the length of the series;
\* element i is the average over [i - floor(w/2), i + ceil(w/2)) clipped to the
\* series, and that window is never empty.
MovingAverageWindow ==
  (op = "movingAverage" /\ Len(data) >= 1) =>
    /\ Len(result.series) = Len(data)
    /\ \A i \in 0..(Len(data) - 1) :
         LET lo == Max2(0, i - (arg \div 2))
             hi == Min2(Len(data), i + ((arg + 1) \div 2))
         IN  /\ hi > lo
             /\ ~IsNaN(result.series[i + 1])
             /\ result.series[i + 1] = Norm(RangeSum(data, lo, hi), hi - lo)

\* C8 witness: window 3 on [0,0,1] averages 2, 3 and 2 values
MovingAverageClipped ==
  /\ op = "movingAverage" /\ arg = 3 /\ data = <<0, 0, 1>>
  /\ result.series = <<Zero, <<1, 3>>, <<1, 2>>>>

\* C9 (as claimed): for degree > 1 every coefficient k in 0..degree is the
\* diagonal quotient (X^T y)[k] / (X^T X)[k][k], the divisor 1 when it is 0.
EveryCoefficientDiagonal ==
  (Fitting /\ arg > 1 /\ Len(data) >= arg + 1) =>
    \A k \in 0..arg :
      /\ k + 1 <= Len(result.coefficients)
      /\ result.coefficients[k + 1] = DiagonalQuotient(data, k)

\* C9 (amended): for degree > 1 only coefficients 0 and 1 are the diagonal
\* quotients; coefficients 2..degree are 0.
FirstTwoCoefficientsDiagonal ==
  (Fitting /\ arg > 1 /\ Len(data) >= arg + 1) =>
    /\ Len(result.coefficients) = arg + 1
    /\ \A k \in 0..arg :
         result.coefficients[k + 1] = (IF k <= 1 THEN DiagonalQuotient(data, k) ELSE Zero)

\* C9 witness: degree 2 on [0,0,1], where (X^T y)[2] = 4 and the coefficient is 0
QuadraticTermDropped ==
  /\ Fitting /\ arg = 2 /\ data = <<0, 0, 1>>
  /\ MomentSum(data, 2, 3) = 4
  /\ result.coefficients = <<<<1, 3>>, <<2, 5>>, Zero>>

\* C10: on a series of length >= 2 the linear fit and the degree-1 polynomial
\* fit agree: same intercept, slope and r2; and the determinant of the 2x2
\* system is at least 1, so its singular branch is not taken.
LinearFitsAgree ==
  (op = "linearRegression" /\ Len(data) >= 2) =>
    LET poly == polynomialRegression(Nums(data), 1)
        det == det2x2(XTXof(designMatrix(Len(data), 1)))
    IN  /\ poly.coefficients = <<result.intercept, result.slope>>
        /\ poly.r2 = result.r2
        /\ RLe(One, det)
        /\ ~BelowEpsilon(det)

\* C10 witness: [0,0,1] has slope 1/2, intercept -1/6 and r2 = 3/4 in both fits
LinearFitOfStep ==
  /\ op = "linearRegression" /\ data = <<0, 0, 1>>
  /\ result = [slope |-> <<1, 2>>, intercept |-> <<0 - 1, 6>>, r2 |-> <<3, 4>>]
  /\ polynomialRegression(Nums(data), 1).coefficients = <<<<0 - 1, 6>>, <<1, 2>>>>

====
